---------------------------- MODULE Spec2Model ----------------------------
(***************************************************************************)
(* Model of src/src/extract_github_data.py: the two-step GitHub            *)
(* extraction (list page, then one detail fetch per summary), its          *)
(* checkpoint ("since") store with four backends, the response cache,      *)
(* flatten/validate, and the summary/upload at the end of a run.           *)
(*                                                                         *)
(* Data encoding.  A JSON scalar is represented by its JSON text (a        *)
(* string): "null" is Python's None.  A Python dict is a function whose    *)
(* DOMAIN is the set of keys present.  A raw repository payload is         *)
(* [fields, ownerKind, owner]: the top-level scalar members, whether the   *)
(* 'owner' member is absent, null or an object, and the owner's members.   *)
(***************************************************************************)
EXTENDS Integers, Sequences, FiniteSets, TLC

VARIABLES
    method,                \* Config.SINCE_STORAGE_METHOD
    MAX_REQUESTS_PER_RUN,  \* Config.MAX_REQUESTS_PER_RUN
    store,                 \* the persisted checkpoint (file / env var / S3 object / DynamoDB item)
    cache,                 \* cache directory: repo id -> cached detail payload
    pc,                    \* position of the process
    test_mode, use_cache, skip_upload,      \* arguments of extract_repositories
    since, max_repos, repo_list, repos_to_process,     \* locals of extract_repositories
    i,                     \* number of loop iterations finished
    repo_id, repo_detail, flattened, is_valid, missing,
    detailed_repos, valid_count, invalid_count, failed_count, api_calls, cache_hits,
    metadata, result, exit_code,
    network_requests,      \* history: detail network requests really made in this run
    served_from_cache,     \* history: detail records served by the cache without a request
    saved,                 \* history: the arguments of save_last_repo_id in this run, in order
    read_failed,           \* history: the remote checkpoint read of this run raised
    write_failed,          \* history: the last remote checkpoint write of this run raised
    prev_run,              \* history: the previous run's last save_last_repo_id argument (0: none)
                           \*          and whether its last remote write raised
    list_status,           \* history: how the list request of this run ended
    fetch_status,          \* history: how the last call of fetch_repository_details ended
    uploads,               \* history: the calls of upload_to_s3, their data and whether the write succeeded
    slept,                 \* history: seconds spent in time.sleep in this run
    call_arg               \* history: the argument of a direct validate_repository call, as passed

vars == << method, MAX_REQUESTS_PER_RUN, store, cache, pc, test_mode, use_cache,
           skip_upload, since, max_repos, repo_list, repos_to_process, i, repo_id, repo_detail,
           flattened, is_valid, missing, detailed_repos, valid_count, invalid_count,
           failed_count, api_calls, cache_hits, metadata, result, exit_code,
           network_requests, served_from_cache, saved, read_failed, write_failed,
           prev_run, list_status, fetch_status, uploads, slept, call_arg >>

----------------------------------------------------------------------------
(* Bounds of the model *)

\* repository identifiers of the catalog are 1..MaxId
MaxId == 2
\* MAX_REQUESTS_PER_RUN ranges over 0..MaxQuota
MaxQuota == 2
\* flat records handed to validate_repository on their own break at most
\* MaxBad required fields
MaxBad == 2

\* a list page holds at most MaxPage summaries (at most the whole catalog)
MaxPage == MaxId

----------------------------------------------------------------------------
(* Program constants *)

REPOS_PER_PAGE == 100
DEFAULT_MAX_REQUESTS_PER_RUN == 60
TEST_MODE_PAGES == 1
\* seconds
RATE_LIMIT_SLEEP == 60
REQUEST_DELAY == 1

REQUIRED_FIELDS ==
    << "id", "name", "full_name", "html_url", "description", "stargazers_count",
       "language", "created_at", "updated_at",
       "owner_login", "owner_id", "owner_type", "owner_avatar_url", "owner_url" >>

Methods == {"file", "env", "s3", "dynamo"}
Remote == {"s3", "dynamo"}

----------------------------------------------------------------------------
(* Python values *)

None == "null"
EmptyDict == [k \in {} |-> None]

\* d.get(k): None when the key is absent
Get(d, k) == IF k \in DOMAIN d THEN d[k] ELSE None

\* bool(payload) of a decoded payload: an empty dict is falsy
Truthy(p) == ~(DOMAIN p.fields = {} /\ p.ownerKind = "absent")

\* list[:m] as Python slices: a negative m counts from the end
Slice(list, m) ==
    IF m >= 0
    THEN SubSeq(list, 1, IF m < Len(list) THEN m ELSE Len(list))
    ELSE SubSeq(list, 1, IF Len(list) + m > 0 THEN Len(list) + m ELSE 0)

\* str(n) for n >= 0, as the sequence of its decimal digits
RECURSIVE StrOfInt(_)
StrOfInt(n) == IF n < 10 THEN << n >> ELSE Append(StrOfInt(n \div 10), n % 10)

\* int(s) of a sequence of decimal digits
RECURSIVE IntOfStr(_)
IntOfStr(s) ==
    IF Len(s) = 1 THEN s[1]
    ELSE 10 * IntOfStr(SubSeq(s, 1, Len(s) - 1)) + s[Len(s)]

----------------------------------------------------------------------------
(* The detail endpoint's payloads *)

RepoKeys == { REQUIRED_FIELDS[k] : k \in 1..9 }
OwnerKeys == {"login", "id", "type", "avatar_url", "html_url"}

RepoFields(id) ==
    [k \in RepoKeys |-> IF k = "id" THEN ToString(id)
                        ELSE IF k = "stargazers_count" THEN "0" ELSE "s"]
OwnerFields == [k \in OwnerKeys |-> IF k = "id" THEN "1" ELSE "s"]

\* a complete repository object
PayloadFull(id) == [fields |-> RepoFields(id), ownerKind |-> "object", owner |-> OwnerFields]
\* the owner object has no 'login'
PayloadNoLogin(id) ==
    [fields |-> RepoFields(id), ownerKind |-> "object",
     owner |-> [k \in OwnerKeys \ {"login"} |-> OwnerFields[k]]]
\* "owner": null
PayloadOwnerNull(id) == [fields |-> RepoFields(id), ownerKind |-> "null", owner |-> EmptyDict]
\* the empty object {}
PayloadEmpty == [fields |-> EmptyDict, ownerKind |-> "absent", owner |-> EmptyDict]

\* the objects the detail endpoint answers for repository id
Payloads(id) == { PayloadFull(id), PayloadNoLogin(id), PayloadOwnerNull(id), PayloadEmpty }

----------------------------------------------------------------------------
(* Flatten and validate *)

\* repo.get('owner', {}).get(k); None.get raises when "owner" is null, see flatten_repository_data
OwnerGet(repo, k) == IF repo.ownerKind = "object" THEN Get(repo.owner, k) ELSE None

flatten_repository_data(repo) ==
    IF repo.ownerKind = "null"
    THEN EmptyDict      \* AttributeError, caught: return {}
    ELSE [k \in { REQUIRED_FIELDS[n] : n \in 1..Len(REQUIRED_FIELDS) } |->
            CASE k = "owner_login" -> OwnerGet(repo, "login")
              [] k = "owner_id" -> OwnerGet(repo, "id")
              [] k = "owner_type" -> OwnerGet(repo, "type")
              [] k = "owner_avatar_url" -> OwnerGet(repo, "avatar_url")
              [] k = "owner_url" -> OwnerGet(repo, "html_url")
              [] OTHER -> Get(repo.fields, k)]

\* (variant: a None value is not looked at)
FieldMissingOnlyAbsent(repo, field) == field \notin DOMAIN repo
\* the test of line 542
FieldMissing(repo, field) == field \notin DOMAIN repo \/ repo[field] = None

\* missing_fields of validate_repository
MissingFields(repo) == SelectSeq(REQUIRED_FIELDS, LAMBDA f : FieldMissing(repo, f))

validate_repository(repo) ==
    [is_valid |-> Len(MissingFields(repo)) = 0, missing |-> MissingFields(repo)]

----------------------------------------------------------------------------
(* Checkpoint store *)

\* no file / LAST_REPO_ID unset / no S3 object / no DynamoDB item
NoCheckpoint == [exists |-> FALSE, text |-> << >>, num |-> 0]

\* get_last_repo_id() on the store s; failed: the S3 or DynamoDB request raised
get_last_repo_id(s, failed) ==
    CASE method = "file" -> IF s.exists THEN IntOfStr(s.text) ELSE 0
      [] method = "env" -> IntOfStr(IF s.exists THEN s.text ELSE << 0 >>)
      [] method = "s3" -> IF failed \/ ~s.exists THEN 0 ELSE IntOfStr(s.text)
      [] method = "dynamo" -> IF failed \/ ~s.exists THEN 0 ELSE s.num

\* (variant: the identifier before the one given is written)
FileTextStale(id) == StrOfInt(IF id > 1 THEN id - 1 ELSE id)
\* what the file backend writes: str(repo_id)
FileText(id) == StrOfInt(id)

\* the store s after save_last_repo_id(id); failed: the S3 or DynamoDB request raised
save_last_repo_id(s, id, failed) ==
    CASE method = "file" -> [exists |-> TRUE, text |-> FileText(id), num |-> 0]
      [] method = "env" -> s
      [] method = "s3" -> IF failed THEN s
                          ELSE [exists |-> TRUE, text |-> StrOfInt(id), num |-> 0]
      [] method = "dynamo" -> IF failed THEN s
                              ELSE [exists |-> TRUE, text |-> << >>, num |-> id]

\* the outcomes a checkpoint request can have under the configured backend
Failures == IF method \in Remote THEN BOOLEAN ELSE {FALSE}

\* the value an undisturbed read of the store returns
Persisted == get_last_repo_id(store, FALSE)

----------------------------------------------------------------------------
(* Response cache *)

\* load_from_cache(id, 'detail') returns a truthy value
CachedTruthy(c, id) == id \in DOMAIN c /\ Truthy(c[id])

\* the cache after save_to_cache(id, data, 'detail')
save_to_cache(c, id, data) == [x \in DOMAIN c \cup {id} |-> IF x = id THEN data ELSE c[x]]

\* Python None where a payload is expected (fetch_repository_details returned None)
NoDetail == [fields |-> EmptyDict, ownerKind |-> "None", owner |-> EmptyDict]

----------------------------------------------------------------------------
(* The list endpoint *)

RECURSIVE SortedSeq(_)
\* the identifiers of S in ascending order
SortedSeq(S) ==
    IF S = {} THEN << >>
    ELSE LET m == CHOOSE x \in S : \A y \in S : x <= y
         IN << m >> \o SortedSeq(S \ {m})

\* the non-empty pages GET /repositories?since=cursor can answer: ascending
\* identifiers greater than the cursor
Pages(cursor) ==
    { SortedSeq(S) : S \in { T \in SUBSET ((cursor + 1)..MaxId) :
                                 T # {} /\ Cardinality(T) <= MaxPage } }

----------------------------------------------------------------------------
(* State of a process before extract_repositories runs *)

NoRecord == EmptyDict

Locals ==
    /\ pc = "idle"
    /\ skip_upload = FALSE
    /\ since = 0 /\ max_repos = 0 /\ repo_list = << >> /\ repos_to_process = << >>
    /\ i = 0 /\ repo_id = 0 /\ repo_detail = NoDetail
    /\ flattened = EmptyDict /\ is_valid = FALSE /\ missing = << >>
    /\ detailed_repos = << >>
    /\ valid_count = 0 /\ invalid_count = 0 /\ failed_count = 0
    /\ api_calls = 0 /\ cache_hits = 0
    /\ metadata = NoRecord /\ result = NoRecord /\ exit_code = -1
    /\ network_requests = 0 /\ served_from_cache = 0
    /\ saved = << >> /\ read_failed = FALSE /\ write_failed = FALSE
    /\ list_status = "none" /\ fetch_status = "none" /\ uploads = << >> /\ slept = 0

\* the checkpoint as earlier runs may have left it, before the previous
\* run's last save: nothing, or an identifier
EarlierStores ==
    {NoCheckpoint} \cup
    { IF method = "dynamo" THEN [exists |-> TRUE, text |-> << >>, num |-> v]
      ELSE [exists |-> TRUE, text |-> StrOfInt(v), num |-> 0] : v \in 1..MaxId }

\* the cache directory as earlier runs may have left it: empty, or holding the
\* file save_to_cache wrote for one answered request
NoCache == [x \in {} |-> NoDetail]
EarlierCaches ==
    {NoCache} \cup UNION { { save_to_cache(NoCache, id, data) : data \in Payloads(id) } : id \in 1..MaxId }

\* the cache directories a run is started on: with use_cache false the cache is
\* neither written nor looked at for any decision (lines 452, 474, 691), and
\* one non-empty directory stands for all
CachesOf(uc) ==
    IF uc THEN EarlierCaches ELSE {NoCache, save_to_cache(NoCache, 1, PayloadFull(1))}

\* the run modes: MAX_REQUESTS_PER_RUN is read in production mode only (line
\* 635); a test-mode run is modelled with its default
Modes ==
    { [test_mode |-> TRUE, quota |-> DEFAULT_MAX_REQUESTS_PER_RUN] } \cup
    { [test_mode |-> FALSE, quota |-> q] : q \in 0..MaxQuota }

\* A process about to call extract_repositories: its configuration and
\* arguments, the cache directory, and the checkpoint as the previous run
\* left it.  That run's last call of save_last_repo_id, if it made one, had the
\* argument p, above what it found stored unless a remote read had failed.
Init ==
    /\ method \in Methods
    /\ \E m \in Modes : test_mode = m.test_mode /\ MAX_REQUESTS_PER_RUN = m.quota
    /\ use_cache \in BOOLEAN
    /\ cache \in CachesOf(use_cache)
    /\ \E s \in EarlierStores, p \in 0..MaxId, wf \in Failures :
          /\ p = 0 => ~wf
          /\ p > 0 => (method \in Remote \/ p > get_last_repo_id(s, FALSE))
          /\ store = IF p = 0 THEN s ELSE save_last_repo_id(s, p, wf)
          /\ prev_run = [saved |-> p, write_failed |-> wf]
    /\ Locals
    /\ call_arg = EmptyDict

config == << method, MAX_REQUESTS_PER_RUN, test_mode, use_cache >>
loop_locals == << since, max_repos, repo_list, repos_to_process >>
counters == << detailed_repos, valid_count, invalid_count, failed_count, api_calls, cache_hits >>
validation == << flattened, is_valid, missing >>
outcome == << metadata, result, exit_code, skip_upload >>
detail_traffic == << fetch_status, slept >>

----------------------------------------------------------------------------
(* extract_repositories, lines 621-673: checkpoint read, budget, list stage *)

\* max_repos of lines 627-635
Budget == IF test_mode THEN REPOS_PER_PAGE * TEST_MODE_PAGES ELSE MAX_REQUESTS_PER_RUN - 1

\* (variant: the page is not cut to the budget)
BudgetedNoSlice(page, budget) == page
\* repos_to_process of line 660
Budgeted(page, budget) == Slice(page, budget)

\* lines 621-646
ReadCheckpoint(rf) ==
    /\ pc = "idle"
    /\ since' = get_last_repo_id(store, rf)
    /\ read_failed' = rf
    /\ max_repos' = Budget

\* boto3.client raises in get_last_repo_id's s3 branch (line 198): matching the
\* first handler evaluates s3_client.exceptions.NoSuchKey (line 206) with
\* s3_client unbound, and the UnboundLocalError leaves get_last_repo_id and
\* extract_repositories and reaches main's "except Exception" (lines 823-825)
StartClientError ==
    /\ pc = "idle"
    /\ method = "s3"
    /\ read_failed' = TRUE
    /\ exit_code' = 1
    /\ pc' = "exited"
    /\ UNCHANGED << config, store, cache, loop_locals, i, repo_id, repo_detail, validation,
                    counters, metadata, result, skip_upload, network_requests,
                    served_from_cache, saved, write_failed, prev_run, list_status,
                    detail_traffic, uploads, call_arg >>

\* the list request answers a non-empty page
StartListed ==
    \E rf \in Failures :
        /\ ReadCheckpoint(rf)
        /\ \E page \in Pages(get_last_repo_id(store, rf)) :
              /\ repo_list' = page
              /\ repos_to_process' = Budgeted(page, Budget)
        /\ pc' = "loop"
        /\ list_status' = "page"
        /\ UNCHANGED << config, store, cache, i, repo_id, repo_detail, validation, counters,
                        outcome, network_requests, served_from_cache, saved, write_failed,
                        prev_run, detail_traffic, uploads, call_arg >>

\* (variant: the empty list is reported as a success)
NoRepositoriesDone == [success |-> TRUE, message |-> "No repositories to process"]
\* the value returned at lines 652-655
NoRepositoriesResult == [success |-> FALSE, message |-> "No repositories to process"]

\* what main exits with for the value extract_repositories returned (lines 808-816)
ExitCode(res) == IF res.success THEN 0 ELSE 1

\* fetch_repository_list returned ([], since): lines 650-655, and main's exit
NoRepositories(status) ==
    /\ list_status' = status
    /\ repo_list' = << >>
    /\ repos_to_process' = << >>
    /\ result' = NoRepositoriesResult
    /\ exit_code' = ExitCode(NoRepositoriesResult)
    /\ pc' = "exited"
    /\ UNCHANGED << config, store, cache, i, repo_id, repo_detail, validation, counters,
                    metadata, skip_upload, network_requests, served_from_cache, saved,
                    write_failed, prev_run, detail_traffic, uploads, call_arg >>

\* the list request answers an empty page (lines 423-425)
StartEmptyPage == \E rf \in Failures : ReadCheckpoint(rf) /\ NoRepositories("empty")

\* the list request answers 403, rate limit exceeded: raise_for_status raises an
\* HTTPError, a RequestException (lines 417, 432-434)
StartListRateLimited == \E rf \in Failures : ReadCheckpoint(rf) /\ NoRepositories("403")

\* the list request raises another RequestException (lines 432-434)
StartListError == \E rf \in Failures : ReadCheckpoint(rf) /\ NoRepositories("error")

----------------------------------------------------------------------------
(* extract_repositories, lines 675-712: one iteration of the loop *)

InLoop == pc = "loop" /\ i < Len(repos_to_process)

\* repo_summary['id'] of the iteration about to run
Item == repos_to_process[i + 1]

\* fetch_repository_details returns the cached payload (lines 452-455)
ServedByCache(id) == use_cache /\ CachedTruthy(cache, id)

\* the test of line 691, on the cache as the fetch left it
CountsAsCacheHit(c, id) == CachedTruthy(c, id) /\ use_cache

\* (variant: the enumerate index is saved instead of the identifier)
CheckpointIdIndex(id) == i + 1
\* (variant: the page's last identifier is saved instead of the item's)
CheckpointIdListEnd(id) == repos_to_process[Len(repos_to_process)]
\* the argument of line 712's call, in the iteration of item id
CheckpointId(id) == id

\* line 712
Checkpoint(id, wf) ==
    /\ store' = save_last_repo_id(store, CheckpointId(id), wf)
    /\ saved' = Append(saved, CheckpointId(id))
    /\ write_failed' = wf

\* (variant: the loop is left, as by a break)
BreakLoop(k) == Len(repos_to_process)
\* the number of iterations finished once iteration k + 1 ends, by falling off
\* the loop body or by the continue of line 688
NextIteration(k) == k + 1

\* (variant: the record is appended whatever validate_repository returned)
CollectedAlways(batch, flat, ok) == Append(batch, flat)
\* detailed_repos after lines 702-703
Collected(batch, flat, ok) == IF ok THEN Append(batch, flat) ELSE batch

\* (variant: a 403 is retried once)
RequestsWithRetry(status) == IF status = "403" THEN 2 ELSE 1
\* the number of requests.get calls of a fetch_repository_details call that
\* goes to the network and ends with status (line 466; there is no retry loop)
Requests(status) == 1

\* lines 462-466: the delay, then the request
Request(status) ==
    /\ network_requests' = network_requests + Requests(status)
    /\ slept' = slept + REQUEST_DELAY * Requests(status)
    /\ fetch_status' = status

\* lines 690-712, for the payload fetch_repository_details returned; c is the
\* cache as the fetch left it
Process(id, detail, c, wf) ==
    /\ repo_id' = id
    /\ repo_detail' = detail
    /\ cache' = c
    /\ IF CountsAsCacheHit(c, id)
       THEN cache_hits' = cache_hits + 1 /\ api_calls' = api_calls
       ELSE api_calls' = api_calls + 1 /\ cache_hits' = cache_hits
    /\ LET flat == flatten_repository_data(detail)
           v == validate_repository(flat)
       IN /\ flattened' = flat
          /\ is_valid' = v.is_valid
          /\ missing' = v.missing
          /\ detailed_repos' = Collected(detailed_repos, flat, v.is_valid)
          /\ IF v.is_valid
             THEN valid_count' = valid_count + 1 /\ invalid_count' = invalid_count
             ELSE invalid_count' = invalid_count + 1 /\ valid_count' = valid_count
    /\ failed_count' = failed_count
    /\ Checkpoint(id, wf)
    /\ i' = NextIteration(i)
    /\ UNCHANGED << config, pc, loop_locals, outcome, read_failed, prev_run, list_status,
                    uploads, call_arg >>

\* the detail record comes from the cache: no request is made
ItemCached ==
    /\ InLoop
    /\ ServedByCache(Item)
    /\ served_from_cache' = served_from_cache + 1
    /\ network_requests' = network_requests
    /\ fetch_status' = "cached"
    /\ slept' = slept
    /\ \E wf \in Failures : Process(Item, cache[Item], cache, wf)

\* the cache after a request answered data (lines 474-475)
CacheAfterFetch(id, data) == IF use_cache THEN save_to_cache(cache, id, data) ELSE cache

\* the request is made and answers 200 with a JSON object
ItemFetched ==
    /\ InLoop
    /\ ~ServedByCache(Item)
    /\ Request("200")
    /\ served_from_cache' = served_from_cache
    /\ \E data \in Payloads(Item), wf \in Failures :
          Process(Item, data, CacheAfterFetch(Item, data), wf)

\* (variant: a failed fetch is not counted as an API call)
ApiCallsUncounted(n) == n
\* api_calls after line 687
ApiCallsAfterFailure(n) == n + 1

\* the request is made and raises: fetch_repository_details returns None and
\* the loop continues at line 688
Failed(status) ==
    /\ InLoop
    /\ ~ServedByCache(Item)
    /\ Request(status)
    /\ repo_id' = Item
    /\ repo_detail' = NoDetail
    /\ failed_count' = failed_count + 1
    /\ api_calls' = ApiCallsAfterFailure(api_calls)
    /\ i' = NextIteration(i)
    /\ UNCHANGED << config, store, cache, pc, loop_locals, validation, detailed_repos,
                    valid_count, invalid_count, cache_hits, outcome, served_from_cache,
                    saved, read_failed, write_failed, prev_run, list_status, uploads,
                    call_arg >>

\* HTTP 404 (lines 480-481)
ItemNotFound == Failed("404")
\* HTTP 403 (lines 482-483)
ItemForbidden == Failed("403")
\* another HTTP error status (lines 484-485)
ItemHttpError == Failed("http_error")
\* timeout or connection error (lines 488-490)
ItemRequestError == Failed("request_error")

\* KeyboardInterrupt between two iterations (main, lines 818-822)
Interrupt ==
    /\ pc = "loop"
    /\ pc' = "exited"
    /\ exit_code' = 130
    /\ UNCHANGED << config, store, cache, loop_locals, i, repo_id, repo_detail, validation,
                    counters, metadata, result, skip_upload, network_requests,
                    served_from_cache, saved, read_failed, write_failed, prev_run,
                    list_status, detail_traffic, uploads, call_arg >>

----------------------------------------------------------------------------
(* extract_repositories, lines 714-760, and main's exit *)

AtSummary == pc = "loop" /\ i = Len(repos_to_process)

\* lines 728-740 (without the clock readings)
Metadata ==
    [start_repo_id |-> since, last_repo_id |-> repo_id,
     total_processed |-> Len(repos_to_process),
     valid_count |-> valid_count, invalid_count |-> invalid_count,
     failed_count |-> failed_count, api_calls |-> api_calls,
     cache_hits |-> cache_hits, test_mode |-> test_mode]

\* the value returned at lines 755-760
Summary(key) ==
    [success |-> TRUE, metadata |-> Metadata, s3_key |-> key,
     repositories_count |-> Len(detailed_repos)]

\* lines 727-760 and 808-813; calls: the upload_to_s3 calls made
Return(su, key, calls) ==
    /\ skip_upload' = su
    /\ metadata' = Metadata
    /\ result' = Summary(key)
    /\ exit_code' = ExitCode(Summary(key))
    /\ uploads' = calls
    /\ pc' = "exited"
    /\ UNCHANGED << config, store, cache, loop_locals, i, repo_id, repo_detail, validation,
                    counters, network_requests, served_from_cache, saved, read_failed,
                    write_failed, prev_run, list_status, detail_traffic, call_arg >>

\* the loop never ran: line 725 reads repo_id, which is unbound; the NameError
\* reaches main's "except Exception" (lines 823-825)
SummaryNameError ==
    /\ AtSummary
    /\ Len(repos_to_process) = 0
    /\ exit_code' = 1
    /\ pc' = "exited"
    /\ UNCHANGED << config, store, cache, loop_locals, i, repo_id, repo_detail, validation,
                    counters, metadata, result, skip_upload, network_requests,
                    served_from_cache, saved, read_failed, write_failed, prev_run,
                    list_status, detail_traffic, uploads, call_arg >>

\* (variant: the batch is uploaded even when it is empty)
UploadingAlways(su, batch) == ~su
\* the test of line 744: not skip_upload and detailed_repos
Uploading(su, batch) == ~su /\ batch # << >>

\* one call upload_to_s3(detailed_repos, metadata); ok: put_object did not raise
UploadCall(ok) == << [data |-> detailed_repos, ok |-> ok] >>

\* upload_to_s3 returns the key (lines 744-747, 595)
FinishUploaded ==
    /\ AtSummary /\ Len(repos_to_process) > 0
    /\ Uploading(FALSE, detailed_repos)
    /\ Return(FALSE, "key", UploadCall(TRUE))

\* upload_to_s3 catches the failure and returns None (lines 597-599)
FinishUploadFailed ==
    /\ AtSummary /\ Len(repos_to_process) > 0
    /\ Uploading(FALSE, detailed_repos)
    /\ Return(FALSE, None, UploadCall(FALSE))

\* --skip-upload (lines 748-750)
FinishSkipUpload ==
    /\ AtSummary /\ Len(repos_to_process) > 0
    /\ ~Uploading(TRUE, detailed_repos)
    /\ Return(TRUE, None, << >>)

\* nothing valid to upload (lines 751-753)
FinishNothingValid ==
    /\ AtSummary /\ Len(repos_to_process) > 0
    /\ ~Uploading(FALSE, detailed_repos)
    /\ Return(FALSE, None, << >>)

Next ==
    \/ StartClientError
    \/ StartListed \/ StartEmptyPage \/ StartListRateLimited \/ StartListError
    \/ ItemCached \/ ItemFetched
    \/ ItemNotFound \/ ItemForbidden \/ ItemHttpError \/ ItemRequestError
    \/ Interrupt
    \/ SummaryNameError
    \/ FinishUploaded \/ FinishUploadFailed \/ FinishSkipUpload \/ FinishNothingValid

Spec == Init /\ [][Next]_vars

----------------------------------------------------------------------------
(* validate_repository called on its own *)

Fields == { REQUIRED_FIELDS[n] : n \in 1..Len(REQUIRED_FIELDS) }

\* the required fields that hold JSON numbers
NumericFields == {"id", "owner_id", "stargazers_count"}

\* the numbers a numeric field of a flat record holds: negative, zero, positive
Numbers == -1..MaxId

\* a well-formed value of field k, as flatten_repository_data copies it
FieldValue(k) ==
    CASE k = "id" -> RepoFields(1)["id"]
      [] k = "stargazers_count" -> RepoFields(1)["stargazers_count"]
      [] k = "owner_id" -> OwnerFields["id"]
      [] OTHER -> "s"

\* flat records: every required field holds a value, except up to MaxBad
\* fields that are absent or None; the empty record flatten_repository_data
\* returns on an error; and records with every field present and not None
\* whose numeric fields hold any of the Numbers
FlatRecords ==
    {EmptyDict} \cup
    UNION { { [k \in Fields \ absent |-> IF k \in bad THEN None ELSE FieldValue(k)] :
                absent \in SUBSET bad } :
            bad \in { b \in SUBSET Fields : Cardinality(b) <= MaxBad } } \cup
    { [k \in Fields |-> IF k \in NumericFields THEN ToString(n[k]) ELSE FieldValue(k)] :
        n \in [NumericFields -> Numbers] }

InitValidate ==
    /\ method = "file" /\ MAX_REQUESTS_PER_RUN = DEFAULT_MAX_REQUESTS_PER_RUN
    /\ test_mode = FALSE /\ use_cache = FALSE
    /\ store = NoCheckpoint /\ cache = NoCache
    /\ prev_run = [saved |-> 0, write_failed |-> FALSE]
    /\ skip_upload = FALSE
    /\ since = 0 /\ max_repos = 0 /\ repo_list = << >> /\ repos_to_process = << >>
    /\ i = 0 /\ repo_id = 0 /\ repo_detail = NoDetail
    /\ is_valid = FALSE /\ missing = << >>
    /\ detailed_repos = << >>
    /\ valid_count = 0 /\ invalid_count = 0 /\ failed_count = 0
    /\ api_calls = 0 /\ cache_hits = 0
    /\ metadata = NoRecord /\ result = NoRecord /\ exit_code = -1
    /\ network_requests = 0 /\ served_from_cache = 0
    /\ saved = << >> /\ read_failed = FALSE /\ write_failed = FALSE
    /\ list_status = "none" /\ fetch_status = "none" /\ uploads = << >> /\ slept = 0
    /\ pc = "validate"
    /\ flattened \in FlatRecords
    /\ call_arg = flattened

\* is_valid, missing = validate_repository(flattened)
ValidateCall ==
    /\ pc = "validate"
    /\ is_valid' = validate_repository(flattened).is_valid
    /\ missing' = validate_repository(flattened).missing
    /\ pc' = "validated"
    /\ UNCHANGED << config, store, cache, skip_upload, loop_locals, i, repo_id, repo_detail,
                    flattened, counters, metadata, result, exit_code, network_requests,
                    served_from_cache, saved, read_failed, write_failed, prev_run,
                    list_status, detail_traffic, uploads, call_arg >>

NextValidate == ValidateCall

SpecValidate == InitValidate /\ [][NextValidate]_vars

----------------------------------------------------------------------------
(* Properties *)

InRun == pc \in {"loop", "exited"}
Interrupted == pc = "exited" /\ exit_code = 130
Returned == pc = "exited" /\ exit_code = 0
Last(seq) == seq[Len(seq)]
Min(a, b) == IF a < b THEN a ELSE b
AtLeastZero(n) == IF n > 0 THEN n ELSE 0

\* the backend stored the last write of the run
WriteStored == method = "file" \/ (method \in Remote /\ ~write_failed)

\* position of identifier x in repos_to_process
Pos(x) == CHOOSE k \in 1..Len(repos_to_process) : repos_to_process[k] = x

\* every save_last_repo_id call so far had the identifier of an item whose
\* iteration has run, and the calls follow the list's order
WritesFollowList ==
    /\ \A a \in 1..Len(saved) : \E k \in 1..i : repos_to_process[k] = saved[a]
    /\ \A a \in 1..Len(saved), b \in 1..Len(saved) : a < b => Pos(saved[a]) < Pos(saved[b])

\* C1: after every iteration of the loop, whatever the item's outcome,
\* save_last_repo_id has been called with that item's identifier.
C1_CheckpointAfterEveryItem ==
    (InRun /\ i >= 1) => (Len(saved) = i /\ Last(saved) = repos_to_process[i])

\* C2: within a run every value passed to save_last_repo_id is above the
\* cursor get_last_repo_id returned and not below any value passed earlier;
\* when the read did not fail the persisted value is never below that cursor.
C2_WritesNeverDecrease ==
    InRun =>
        /\ \A k \in 1..Len(saved) :
              /\ saved[k] > since
              /\ k > 1 => saved[k] >= saved[k - 1]
        /\ ~read_failed => Persisted >= since
        /\ (saved # << >> /\ WriteStored) => Persisted = Last(saved)

C2_Witness == pc = "loop" /\ Len(saved) = 2 /\ method = "file"

\* C3 as claimed: for every backend and also when a checkpoint request fails,
\* the cursor read at the start of a run is at least the last cursor the
\* previous run passed to save_last_repo_id.
C3_ReadAtLeastLastSaved ==
    (InRun /\ prev_run.saved > 0) => since >= prev_run.saved

\* C3 amended: with the file backend, and with s3 or dynamo when neither that
\* last write nor the read fails, the cursor read at the start of a run is the
\* last cursor the previous run passed to save_last_repo_id.
C3_ReadIsLastSavedWhenStored ==
    ( /\ InRun
      /\ prev_run.saved > 0
      /\ \/ method = "file"
         \/ method \in Remote /\ ~prev_run.write_failed /\ ~read_failed )
    => since = prev_run.saved

C3_Witness ==
    /\ pc = "loop" /\ prev_run.saved = 1 /\ since = 1
    /\ method \in {"file", "dynamo"}

\* C4: a run interrupted between two iterations leaves as persisted checkpoint
\* the identifier of the last item whose iteration ran (failed and not-found
\* items included), or the start cursor when none ran.  Stated for the file
\* backend, whose reads and writes do not fail.
C4_InterruptKeepsLastItem ==
    (Interrupted /\ method = "file") =>
        Persisted = IF i = 0 THEN since ELSE repos_to_process[i]

\* C5 as claimed: in every state of a run the persisted checkpoint is the cursor
\* read at the start or the identifier of an item whose iteration has run, and
\* the writes follow the list's order.
C5_CheckpointIsHandledItem ==
    InRun =>
        /\ \/ Persisted = since
           \/ \E k \in 1..i : Persisted = repos_to_process[k]
        /\ WritesFollowList

\* C5 amended: the same, for the persisted value, when the read at the start of
\* the run did not fail (a failed remote read returns 0 whatever is stored);
\* the writes are of handled items and follow the list's order in every case.
C5_CheckpointIsHandledItemAfterGoodRead ==
    InRun =>
        /\ ~read_failed =>
              \/ Persisted = since
              \/ \E k \in 1..i : Persisted = repos_to_process[k]
        /\ WritesFollowList

C5_Witness ==
    /\ pc = "loop" /\ i = 1 /\ Len(repos_to_process) = 2
    /\ Persisted = repos_to_process[1] /\ Persisted # since

\* C6: the number of items the detail stage attempts is at most the budget
\* max_repos, and in production mode at most MAX_REQUESTS_PER_RUN - 1 (none
\* when that is not positive).
C6_AttemptsWithinBudget ==
    InRun =>
        /\ i <= AtLeastZero(max_repos)
        /\ ~test_mode => i <= AtLeastZero(MAX_REQUESTS_PER_RUN - 1)

\* the run returned with n >= 1 summaries, budget b >= 1 and no failed fetch
AllFetched ==
    /\ Returned
    /\ Len(repo_list) >= 1 /\ max_repos >= 1
    /\ failed_count = 0

\* the detail stage handled exactly the first min(n, b) summaries, in order,
\* and checkpointed each
HandledBudgetedPrefix ==
    LET m == Min(Len(repo_list), max_repos)
    IN /\ i = m
       /\ network_requests + served_from_cache = m
       /\ repos_to_process = SubSeq(repo_list, 1, m)
       /\ saved = SubSeq(repo_list, 1, m)

\* C7 as claimed: with n >= 1 summaries, budget b >= 1 and every detail fetch
\* succeeding, exactly the first min(n, b) items are attempted in list order
\* and the persisted checkpoint ends at the min(n, b)-th identifier.
C7_EndsAtBudgetedItem ==
    AllFetched =>
        /\ HandledBudgetedPrefix
        /\ Persisted = repo_list[Min(Len(repo_list), max_repos)]

\* C7 amended: the same, the persisted checkpoint ending at that identifier when
\* the backend stores the write (file; s3 or dynamo when the last write does
\* not fail); the last save_last_repo_id call has that identifier in every case.
C7_EndsAtBudgetedItemWhenStored ==
    AllFetched =>
        /\ HandledBudgetedPrefix
        /\ Last(saved) = repo_list[Min(Len(repo_list), max_repos)]
        /\ WriteStored => Persisted = repo_list[Min(Len(repo_list), max_repos)]

C7_Witness ==
    /\ AllFetched /\ ~test_mode
    /\ Len(repo_list) = 2 /\ max_repos = 1
    /\ method = "file" /\ Persisted = repo_list[1]

\* C8: once a request for an identifier has succeeded under use_cache (the
\* cache holds its answer), a later call under use_cache makes no request and
\* returns that same record.
C8_SecondCallServedByCache ==
    [][ (InLoop /\ i' = i + 1 /\ use_cache /\ Item \in DOMAIN cache)
        => (network_requests' = network_requests /\ repo_detail' = cache[Item]) ]_vars

\* C9: the summary's cache_hits is the number of records served by the cache
\* without a request, and its api_calls the number of requests made.
C9_CountersMatchTraffic ==
    Returned =>
        /\ metadata.cache_hits = served_from_cache
        /\ metadata.api_calls = network_requests

\* the required fields a record violates
Violated(repo) == { f \in Fields : f \notin DOMAIN repo \/ repo[f] = None }

\* position of field f in REQUIRED_FIELDS
FieldPos(f) == CHOOSE n \in 1..Len(REQUIRED_FIELDS) : REQUIRED_FIELDS[n] = f

\* C10: validate_repository returns False and names every required field that
\* is absent or None, returns (True, []) when there is none, lists the fields
\* in REQUIRED_FIELDS order, and leaves the record as it was.
C10_ValidationComplete ==
    pc = "validated" =>
        /\ is_valid = (Violated(call_arg) = {})
        /\ { missing[n] : n \in 1..Len(missing) } = Violated(call_arg)
        /\ \A a \in 1..Len(missing), b \in 1..Len(missing) :
              a < b => FieldPos(missing[a]) < FieldPos(missing[b])
        /\ flattened = call_arg

C10_Witness ==
    /\ pc = "validated" /\ ~is_valid
    /\ missing = << "description", "owner_login" >>
    /\ "owner_login" \in DOMAIN call_arg /\ "description" \notin DOMAIN call_arg

\* the field of the record holds a JSON number
IsNumber(repo, f) == \E n \in Numbers : repo[f] = ToString(n)
NumberOf(repo, f) == CHOOSE n \in Numbers : repo[f] = ToString(n)

\* every required field of the record is present and not None
AllPresent(repo) == \A f \in Fields : f \in DOMAIN repo /\ repo[f] # None

\* the numeric rules a record breaks: an identifier that is not a positive
\* integer, a stargazers_count that is negative
BreaksNumericRule(repo, f) ==
    CASE f \in {"id", "owner_id"} -> ~IsNumber(repo, f) \/ NumberOf(repo, f) <= 0
      [] f = "stargazers_count" -> IsNumber(repo, f) /\ NumberOf(repo, f) < 0
      [] OTHER -> FALSE

\* C11: validate_repository returns False and names the field for every flat
\* record whose id or owner_id is not a positive integer or whose
\* stargazers_count is negative, all required fields being present and not None.
C11_NumericFieldsChecked ==
    (pc = "validated" /\ AllPresent(call_arg)) =>
        \A f \in NumericFields :
            BreaksNumericRule(call_arg, f) =>
                (~is_valid /\ \E n \in 1..Len(missing) : missing[n] = f)

\* the run ended (main called sys.exit) otherwise than by an interrupt
Ended == pc = "exited" /\ exit_code # 130

\* C12: after the list request was answered by a rate-limit 403,
\* fetch_repository_list returned no summaries, the run slept the cooldown
\* RATE_LIMIT_SLEEP before it ended (so before any further list attempt), and
\* no checkpoint was written.
C12_ListRateLimitCooldown ==
    (Ended /\ list_status = "403") =>
        /\ repo_list = << >>
        /\ saved = << >>
        /\ slept >= RATE_LIMIT_SLEEP

\* C13: when the write attempted by upload_to_s3 failed, the run is a failure
\* (success is not true, the exit code is not 0) and the write was attempted
\* once only.
C13_UploadFailureFailsRun ==
    (Ended /\ \E k \in 1..Len(uploads) : ~uploads[k].ok) =>
        /\ result.success = FALSE
        /\ exit_code # 0
        /\ Len(uploads) = 1

\* the loop ran for every budgeted item, at least one, and the run went on to
\* the upload decision of line 744
ProcessedAll == Ended /\ i >= 1 /\ i = Len(repos_to_process)

\* C14: a run that processed its budgeted items with zero valid records ends
\* with success = True and exit code 0, and upload_to_s3 was not called.
C14_NothingValidIsDone ==
    (ProcessedAll /\ valid_count = 0) =>
        /\ result.success = TRUE
        /\ exit_code = 0
        /\ uploads = << >>

C14_Witness ==
    /\ ProcessedAll /\ valid_count = 0 /\ ~skip_upload
    /\ invalid_count = 1 /\ failed_count = 1
    /\ result.s3_key = None

\* C15: when fetch_repository_list returned no summaries (empty page or
\* request error) the run ended at once with success = False and the message
\* 'No repositories to process': no loop iteration, no detail fetch, no
\* save_last_repo_id call, no upload_to_s3 call.
C15_EmptyListAborts ==
    (InRun /\ list_status \in {"empty", "403", "error"}) =>
        /\ pc = "exited"
        /\ result.success = FALSE
        /\ result.message = "No repositories to process"
        /\ exit_code = 1
        /\ i = 0 /\ fetch_status = "none"
        /\ network_requests = 0 /\ served_from_cache = 0
        /\ saved = << >>
        /\ uploads = << >>

C15_Witness ==
    /\ pc = "exited" /\ list_status = "empty" /\ ~result.success
    /\ Persisted = 1 /\ since = 1

\* the outcomes of a detail fetch that give no payload
ErrorStatuses == {"404", "403", "http_error", "request_error"}

\* a step that ends an iteration with a per-item error: the fetch gave no
\* payload, or the record failed validation
ItemErrorStep ==
    /\ i' # i
    /\ fetch_status' \in ErrorStatuses \/ invalid_count' # invalid_count

\* lines 727-760: the summary and the upload decision
Publishing ==
    FinishUploaded \/ FinishUploadFailed \/ FinishSkipUpload \/ FinishNothingValid

\* C16: a per-item error (404, 403, other HTTP error, timeout or network
\* failure, validation failure) does not end the run: the loop goes on with
\* the next item, and after the last budgeted item the run is at the summary
\* with the publishing step enabled.
C16_ItemErrorsNeverAbort ==
    /\ [][ ItemErrorStep =>
              /\ pc' = "loop" /\ exit_code' = exit_code
              /\ i' = i + 1
              /\ repos_to_process' = repos_to_process ]_vars
    /\ [](( pc = "loop" /\ i >= 1 /\ i = Len(repos_to_process) ) => ENABLED Publishing)

C16_Witness ==
    /\ Returned /\ i = 2
    /\ failed_count = 1 /\ invalid_count = 1
    /\ fetch_status = "request_error"

\* the list position of the item a flat record was made from
ItemPos(rec) == CHOOSE k \in 1..Len(repos_to_process) : rec["id"] = ToString(repos_to_process[k])

\* the batch holds valid records only, of items whose iteration has run, in
\* list order and one per valid item so far; upload_to_s3 was handed the batch
BatchIsValidPrefix ==
    /\ Len(detailed_repos) = valid_count
    /\ \A k \in 1..Len(detailed_repos) :
          /\ Violated(detailed_repos[k]) = {}
          /\ \E n \in 1..i : detailed_repos[k]["id"] = ToString(repos_to_process[n])
    /\ \A a \in 1..Len(detailed_repos), b \in 1..Len(detailed_repos) :
          a < b => ItemPos(detailed_repos[a]) < ItemPos(detailed_repos[b])
    /\ \A k \in 1..Len(uploads) : uploads[k].data = detailed_repos

\* an iteration appends its flat record when the fetch gave a payload and
\* validate_repository accepted the record, and leaves the batch alone otherwise
BatchStep ==
    i' # i =>
        detailed_repos' =
            IF fetch_status' \in {"cached", "200"} /\ Violated(flattened') = {}
            THEN Append(detailed_repos, flattened')
            ELSE detailed_repos

\* C17: the batch handed to upload_to_s3 holds exactly the flattened records
\* that passed validate_repository, one per valid item in list order; records
\* that failed validation and items whose fetch failed (not found included)
\* are not in it, and its size is valid_count.
C17_BatchIsValidRecords ==
    /\ [](InRun => BatchIsValidPrefix)
    /\ [][BatchStep]_vars

C17_Witness ==
    /\ Returned /\ Len(repos_to_process) = 2 /\ invalid_count = 1
    /\ missing = << "owner_login" >>
    /\ uploads = << [data |-> << flatten_repository_data(PayloadFull(1)) >>, ok |-> TRUE] >>

\* the counts and the cursor a summary reports
SummaryKeys ==
    {"total_processed", "valid_count", "invalid_count", "failed_count",
     "api_calls", "cache_hits", "last_repo_id"}

\* C18: every run that ends, as a success or as a failure (the 'no
\* repositories' abort included), returns a summary holding the processed,
\* valid, invalid, failed, api-call and cache-hit counts and the final cursor.
C18_SummaryAlwaysReturned ==
    Ended =>
        /\ "metadata" \in DOMAIN result
        /\ SummaryKeys \subseteq DOMAIN result.metadata

\* C19: a fetch that ends in 404 and a fetch that ends in a hard error (other
\* HTTP error, timeout, network failure) both give no record, and they are
\* counted by different counters: a 404 does not increment failed_count.
C19_NotFoundTalliedSeparately ==
    [][ (i' # i /\ fetch_status' \in {"404", "http_error", "request_error"}) =>
            /\ repo_detail' = NoDetail
            /\ detailed_repos' = detailed_repos
            /\ (failed_count' # failed_count) = (fetch_status' # "404") ]_vars

\* C20: a detail fetch answered by a rate-limit 403 increments failed_count and
\* is not retried: every detail request of a run belongs to one iteration of
\* its own, so at most one request is made per budgeted summary.
C20_ForbiddenFailsWithoutRetry ==
    /\ [][ (i' # i /\ fetch_status' = "403") =>
              /\ failed_count' = failed_count + 1
              /\ network_requests' = network_requests + 1 ]_vars
    /\ [][ network_requests' # network_requests =>
              /\ network_requests' = network_requests + 1
              /\ i' = i + 1 ]_vars
    /\ [](InRun => ( /\ network_requests + served_from_cache = i
                      /\ i <= Len(repos_to_process) ))

C20_Witness ==
    /\ pc = "loop" /\ Len(repos_to_process) = 2 /\ i = 2
    /\ fetch_status = "403" /\ failed_count = 2 /\ network_requests = 2

\* C21: when the checkpoint read of a remote backend fails, get_last_repo_id
\* returns 0 and the run goes on to the list request with cursor 0; a failed
\* checkpoint write does not end the run: a run that ended after one has
\* handled every budgeted item and returned its summary.
C21_CheckpointFailuresNotFatal ==
    InRun =>
        /\ read_failed => (since = 0 /\ list_status # "none")
        /\ (write_failed /\ Ended) =>
              /\ i = Len(repos_to_process)
              /\ "metadata" \in DOMAIN result

\* C22: in every run that reaches the summary the counters are conserved:
\* valid_count + invalid_count + failed_count = total_processed =
\* len(repos_to_process) and api_calls + cache_hits = total_processed; each
\* iteration increments exactly one counter of each group.
C22_CountersConserved ==
    /\ InRun =>
          /\ valid_count + invalid_count + failed_count = i
          /\ api_calls + cache_hits = i
    /\ Returned =>
          /\ metadata.total_processed = Len(repos_to_process)
          /\ metadata.valid_count + metadata.invalid_count + metadata.failed_count
                = metadata.total_processed
          /\ metadata.api_calls + metadata.cache_hits = metadata.total_processed

C22_Witness ==
    /\ Returned /\ metadata.total_processed = 2
    /\ metadata.failed_count = 1 /\ metadata.valid_count = 1
    /\ metadata.cache_hits = 1 /\ metadata.api_calls = 1

\* C23: the last_repo_id of the metadata of a run that returned is the
\* checkpoint the run left persisted, with the file backend, whatever the
\* outcomes of the items, a failed or not-found last item included.
C23_ReportedCursorIsPersisted ==
    (Returned /\ method = "file") => metadata.last_repo_id = Persisted

\* C24: with MAX_REQUESTS_PER_RUN >= 1 and a non-empty list page, a run that
\* ends has returned a summary with success = True; it does not end by an
\* error raised while the summary is built, also when the budget selects no
\* item.
C24_SummaryWithoutError ==
    (Ended /\ list_status = "page" /\ MAX_REQUESTS_PER_RUN >= 1) =>
        /\ "success" \in DOMAIN result
        /\ result.success = TRUE
        /\ exit_code = 0

=============================================================================
